---- MODULE Spec2Model ----
(***************************************************************************)
(* A model of exampleapicalls.py: a chat front-end that drives a hosted    *)
(* model API in a bounded request/response loop and dispatches three       *)
(* tools (web_search, read_webpage, execute_code).                         *)
(*                                                                         *)
(* Texts are modelled as sequences of tokens where the code looks inside   *)
(* them (stderr of a failed script, result links), as lengths where only   *)
(* the length matters (webpage text), and as the template that rendered    *)
(* them where the code treats them as opaque (chat messages).              *)
(***************************************************************************)
EXTENDS Integers, Sequences, FiniteSets, TLC

VARIABLES
  api_key,             \* st.session_state.api_key: "set" or "None"
  messages,            \* st.session_state.messages (the context log)
  display_messages,    \* st.session_state.display_messages (the transcript)
  last_executed_code,  \* st.session_state.last_executed_code, "None" if unset
  pc,                  \* position of the script: idle, loop, items, sandbox
  iteration_count,     \* local of the turn
  local_messages,      \* the turn's local copy `messages`
  response,            \* response.content of the last model call
  idx,                 \* index of the content item being handled
  tools_sent,          \* whether the last request carried the tool schema
  obs,                 \* what the turn has done so far (calls, dispatches,
                       \* length of the context last sent, ...)
  sb,                  \* the running execute_code call
  hist,                \* what the sandbox has done over the conversation
  ft,                  \* a read_webpage call on its own
  sr                   \* a search_duckduckgo call on its own

vars == <<api_key, messages, display_messages, last_executed_code, pc,
          iteration_count, local_messages, response, idx, tools_sent, obs,
          sb, hist, ft, sr>>

session == <<api_key, messages, display_messages, last_executed_code>>
turn == <<pc, iteration_count, local_messages, response, idx, tools_sent, obs>>

----------------------------------------------------------------------------
(* Bounds of the model *)

\* user turns in one conversation
MaxTurns == 2
\* model API calls over the whole conversation
MaxCalls == 6
\* the first MaxVaried model calls of the conversation may answer anything in
\* Responses; the later ones answer with text or with one more tool request
MaxVaried == 3

(* Program constants *)

max_iterations == 5
TruncateLen == 300000
PreviewLen == 500

----------------------------------------------------------------------------
(* Python helpers *)

Min(a, b) == IF a < b THEN a ELSE b
Max(a, b) == IF a > b THEN a ELSE b

\* s[a:b] with Python's treatment of negative and out-of-range indices
PyIndex(i, n) == IF i < 0 THEN Max(n + i, 0) ELSE Min(i, n)
PySlice(s, a, b) ==
  LET lo == PyIndex(a, Len(s))
      hi == PyIndex(b, Len(s))
  IN  IF lo < hi THEN SubSeq(s, lo + 1, hi) ELSE <<>>

\* s.find(tok, start): 0-based index of the first tok at or after start, or -1
PyFind(s, tok, start) ==
  LET hits == {i \in 1..Len(s) : i > start /\ s[i] = tok}
  IN  IF hits = {} THEN -1
      ELSE (CHOOSE i \in hits : \A j \in hits : i <= j) - 1

Contains(s, tok) == \E i \in 1..Len(s) : s[i] = tok

\* an optional value: Python's None or a str
None == [some |-> FALSE, v |-> <<>>]
Some(x) == [some |-> TRUE, v |-> x]
Truthy(o) == o.some /\ o.v # <<>>

----------------------------------------------------------------------------
(* Code Execution Sandbox: execute_code and extract_missing_module *)

\* one line of a log, or a one-line text: a template and what it is filled with
Line(l, a) == [line |-> l, arg |-> a]

\* the codes the model submits; "" (like a missing "code" argument) is falsy
Codes == {"A", "B"}
FalsyCodes == {""}

\* stderr of a script that exited non-zero, as tokens:
\*   "MNF" = ModuleNotFoundError, "NMN" = No module named, "q" = a single
\*   quote, "m" = a character of a module name, "x" = any other text
Stderrs == { <<"x">>,
             <<"MNF", "NMN", "q", "m", "q">>,
             <<"MNF", "x">>,
             <<"MNF", "NMN", "q", "q">>,
             <<"MNF", "NMN", "m">>,
             <<"q", "x", "q", "MNF", "NMN", "q", "m", "q">> }

extract_missing_module(error_message) ==
  IF Contains(error_message, "NMN")
  THEN LET start == PyFind(error_message, "q", 0) + 1
           end == PyFind(error_message, "q", start)
       IN  Some(PySlice(error_message, start, end))
  ELSE None

\* the state of execute_code when no call is running; events lists what the
\* subordinate operations of the call did, in order
SbIdle == [pc |-> "idle", code |-> "None", logs |-> <<>>, script |-> "None",
           venv |-> FALSE, error_message |-> <<>>, missing_module |-> <<>>,
           events |-> <<>>, raised |-> FALSE, result |-> <<>>]

\* leaving the `with tempfile.TemporaryDirectory()` block on the given path
\* ("return" or "raise"): the number of temporary directories left
ReturnOnlyExit(dirs, path) == IF path = "return" THEN dirs - 1 ELSE dirs
TemporaryDirectoryExit(dirs, path) == dirs - 1

\* the outer `except Exception`: what the call hands to its caller
CalledProcessOnlyGuard(e) ==
  [raised |-> e # "CalledProcessError",
   result |-> <<Line("Unexpected error: ", <<e>>)>>]
OuterGuard(e) ==
  [raised |-> FALSE, result |-> <<Line("Unexpected error: ", <<e>>)>>]

\* an exception e leaves the with block (when inside it) and reaches the guard
SbRaise(step, e, inside) ==
  LET g == OuterGuard(e)
      left == IF inside THEN TemporaryDirectoryExit(hist.temp_dirs, "raise")
              ELSE hist.temp_dirs
  IN  /\ sb' = [sb EXCEPT !.pc = "returned", !.raised = g.raised,
                          !.result = g.result,
                          !.events = Append(@, <<step, e>>),
                          !.venv = IF left = 0 THEN FALSE ELSE @,
                          !.script = IF left = 0 THEN "None" ELSE @]
      /\ hist' = [hist EXCEPT !.temp_dirs = left]

ExecSuccessLines ==
  << Line("Python code executed successfully.", <<>>),
     Line("Execution output:", <<>>) >>

\* tempfile.TemporaryDirectory()
SbMkdtemp ==
  /\ sb.pc = "mkdtemp"
  /\ \E out \in {"ok", "OSError"} :
       IF out = "ok"
       THEN /\ sb' = [sb EXCEPT !.pc = "venv",
                       !.events = Append(@, <<"mkdtemp", "ok">>)]
            /\ hist' = [hist EXCEPT !.temp_dirs = @ + 1]
       ELSE SbRaise("mkdtemp", out, FALSE)
  /\ UNCHANGED <<session, turn, ft, sr>>

\* subprocess.run([sys.executable, "-m", "venv", venv_dir], check=True)
SbVenv ==
  /\ sb.pc = "venv"
  /\ \E out \in {"ok", "CalledProcessError", "OSError"} :
       IF out = "ok"
       THEN /\ sb' = [sb EXCEPT !.pc = "write", !.venv = TRUE,
                       !.events = Append(@, <<"venv", "ok">>),
                       !.logs = Append(@, Line("Virtual environment set up.", <<>>))]
            /\ UNCHANGED hist
       ELSE SbRaise("venv", out, TRUE)
  /\ UNCHANGED <<session, turn, ft, sr>>

\* open(code_file, "w"); f.write(code)
SbWrite ==
  /\ sb.pc = "write"
  /\ \E out \in {"ok", "OSError"} :
       IF out = "ok"
       THEN /\ sb' = [sb EXCEPT !.pc = "exec", !.script = sb.code,
                       !.events = Append(@, <<"write", "ok">>)]
            /\ UNCHANGED hist
       ELSE SbRaise("write", out, TRUE)
  /\ UNCHANGED <<session, turn, ft, sr>>

\* the except subprocess.CalledProcessError branch of the first execution
AfterFirstFailure(s, stderr) ==
  IF Contains(stderr, "MNF")
  THEN LET missing_module == extract_missing_module(stderr)
       IN  IF Truthy(missing_module)
           THEN [s EXCEPT !.pc = "install", !.error_message = stderr,
                   !.missing_module = missing_module.v,
                   !.logs = Append(@, Line("Installing missing module: ",
                                           missing_module.v))]
           ELSE [s EXCEPT !.pc = "return", !.error_message = stderr,
                   !.logs = Append(@,
                     Line("Error: Unable to extract module name from error: ",
                          stderr))]
  ELSE [s EXCEPT !.pc = "return", !.error_message = stderr,
          !.logs = Append(@, Line("Error executing code: ", stderr))]

\* subprocess.run([python_executable, code_file], ..., check=True)
SbExec ==
  /\ sb.pc = "exec"
  /\ \/ /\ sb' = [sb EXCEPT !.pc = "return",
                            !.events = Append(@, <<"exec", "ok">>),
                            !.logs = @ \o ExecSuccessLines]
        /\ UNCHANGED hist
     \/ /\ \E stderr \in Stderrs :
             sb' = AfterFirstFailure(
                     [sb EXCEPT !.events =
                                  Append(@, <<"exec", "CalledProcessError">>)],
                     stderr)
        /\ UNCHANGED hist
     \/ SbRaise("exec", "OSError", TRUE)
  /\ UNCHANGED <<session, turn, ft, sr>>

\* the inner except subprocess.CalledProcessError, reached by a failed install
\* or a failed retry
RetryAgain(s) ==
  IF s.pc = "retry" THEN AfterFirstFailure(s, s.error_message)
  ELSE [s EXCEPT !.pc = "return",
          !.logs = Append(@, Line("Error installing package: ",
                                  s.missing_module))]
AfterSecondFailure(s) ==
  [s EXCEPT !.pc = "return",
     !.logs = Append(@, Line("Error installing package: ", s.missing_module))]

\* subprocess.run([pip_executable, "install", missing_module, "--no-user"])
SbInstall ==
  /\ sb.pc = "install"
  /\ \/ /\ sb' = [sb EXCEPT !.pc = "retry",
                    !.events = Append(@, <<"install", "ok">>),
                    !.logs = Append(@, Line("Module installed successfully: ",
                                            sb.missing_module))]
        /\ UNCHANGED hist
     \/ /\ sb' = AfterSecondFailure(
                   [sb EXCEPT !.events =
                                Append(@, <<"install", "CalledProcessError">>)])
        /\ UNCHANGED hist
     \/ SbRaise("install", "OSError", TRUE)
  /\ UNCHANGED <<session, turn, ft, sr>>

\* the retry of the script after the install
SbRetry ==
  /\ sb.pc = "retry"
  /\ \/ /\ sb' = [sb EXCEPT !.pc = "return",
                            !.events = Append(@, <<"exec", "ok">>),
                            !.logs = @ \o ExecSuccessLines]
        /\ UNCHANGED hist
     \/ /\ sb' = AfterSecondFailure(
                   [sb EXCEPT !.events =
                                Append(@, <<"exec", "CalledProcessError">>)])
        /\ UNCHANGED hist
     \/ SbRaise("exec", "OSError", TRUE)
  /\ UNCHANGED <<session, turn, ft, sr>>

\* return "\n".join(logs), leaving the with block
SbReturn ==
  /\ sb.pc = "return"
  /\ LET left == TemporaryDirectoryExit(hist.temp_dirs, "return")
     IN  /\ sb' = [sb EXCEPT !.pc = "returned", !.result = sb.logs,
                             !.venv = IF left = 0 THEN FALSE ELSE @,
                             !.script = IF left = 0 THEN "None" ELSE @]
         /\ hist' = [hist EXCEPT !.temp_dirs = left]
  /\ UNCHANGED <<session, turn, ft, sr>>

Sandbox == SbMkdtemp \/ SbVenv \/ SbWrite \/ SbExec \/ SbInstall \/ SbRetry
           \/ SbReturn

----------------------------------------------------------------------------
(* Web Search Provider: search_duckduckgo *)

\* A result link is a sequence of tokens: the text the code looks for
\* ("duckduckgo.com/l/?", "uddg=", "&rut="), percent-encoded forms of it, and
\* other text ("//", "h", "p", "x").
Decode(tok) ==
  CASE tok = "uddg%3D" -> "uddg="
    [] tok = "%26rut%3D" -> "&rut="
    [] tok = "%25" -> "%"
    [] OTHER -> tok

\* urllib.parse.unquote
unquote(s) == [i \in 1..Len(s) |-> Decode(s[i])]

\* s.split(tok)[k] for k in {0, 1}; the caller checks that tok occurs for k = 1
PySplit(s, tok, k) ==
  LET first == PyFind(s, tok, 0)
      second == IF first < 0 THEN -1 ELSE PyFind(s, tok, first + 1)
  IN  IF k = 0
      THEN IF first < 0 THEN s ELSE PySlice(s, 0, first)
      ELSE IF second < 0 THEN PySlice(s, first + 1, Len(s))
           ELSE PySlice(s, first + 1, second)

\* 'duckduckgo.com/l/?uddg=' in link
IsRedirect(link) ==
  \E i \in 1..(Len(link) - 1) :
     link[i] = "duckduckgo.com/l/?" /\ link[i + 1] = "uddg="

\* lines 138-145: the url of a record
CanonicalUrl(link) ==
  IF IsRedirect(link)
  THEN LET decoded == unquote(PySplit(link, "uddg=", 1))
       IN  IF Contains(decoded, "&rut=") THEN PySplit(decoded, "&rut=", 0)
           ELSE decoded
  ELSE link

\* The redirect form the code undoes: the engine percent-encodes the
\* destination as the uddg parameter and appends its tracking parameter.
Encode(tok) ==
  CASE tok = "uddg=" -> "uddg%3D"
    [] tok = "&rut=" -> "%26rut%3D"
    [] tok = "%" -> "%25"
    [] OTHER -> tok
quote(s) == [i \in 1..Len(s) |-> Encode(s[i])]
Wrap(U, track) ==
  <<"//", "duckduckgo.com/l/?", "uddg=">> \o quote(U) \o <<"&rut=">> \o track

\* one <div class="result">: whether it holds an <a class="result__a">, that
\* element's href and text, and the text of its <a class="result__snippet">
BlockLink(b) == IF b.title_elem THEN b.href ELSE None
BlockTitle(b) == IF b.title_elem THEN Some(b.text) ELSE None

\* line 136: which result blocks become records
KeepsBlock(b) == Truthy(BlockTitle(b)) /\ Truthy(BlockLink(b))

RECURSIVE Records(_)
Records(blocks) ==
  IF blocks = <<>> THEN <<>>
  ELSE LET b == Head(blocks)
       IN  (IF KeepsBlock(b)
            THEN << [title |-> BlockTitle(b).v,
                     url |-> CanonicalUrl(BlockLink(b).v),
                     description |-> b.snippet] >>
            ELSE <<>>) \o Records(Tail(blocks))

\* soup.find_all('div', class_='result')[:num_results]
AllBlocks(upstream, num_results) == upstream
FirstBlocks(upstream, num_results) == PySlice(upstream, 0, num_results)

\* the function, given the result blocks of the upstream response
search_duckduckgo(upstream, num_results) ==
  Records(FirstBlocks(upstream, num_results))

----------------------------------------------------------------------------
(* Webpage Fetcher: read_webpage *)

\* len("Error reading webpage: ")
ErrPrefixLen == 23

\* What the environment does to one call: the length of the url, the step
\* that raises ("none", "get", "parse", "extract"), the length of str(e) of
\* the exception, and the length of the text extracted when nothing raises.
\* the try block covers only requests.get
GuardsRequestOnly(env) ==
  IF env.fail = "none"
  THEN [raised |-> FALSE, kind |-> "text", len |-> Min(env.text_len, TruncateLen)]
  ELSE [raised |-> env.fail # "get", kind |-> "error",
        len |-> ErrPrefixLen + env.msg_len]
read_webpage(env) ==
  IF env.fail = "none"
  THEN [raised |-> FALSE, kind |-> "text", len |-> Min(env.text_len, TruncateLen)]
  ELSE [raised |-> FALSE, kind |-> "error", len |-> ErrPrefixLen + env.msg_len]

----------------------------------------------------------------------------
(* What the collaborators may do *)

\* a chat message; the content is the template that rendered it and the
\* argument that identifies it
Msg(role, kind, arg) == [role |-> role, kind |-> kind, arg |-> arg]

\* what the user types in the n-th turn
PromptTexts == <<"p1", "p2", "p3", "p4">>
Prompts(n) == {PromptTexts[n]}

\* content items of a model response
Text == [type |-> "text", name |-> "", arg |-> "t"]
Tool(name, arg) == [type |-> "tool_use", name |-> name, arg |-> arg]

Responses ==
  { <<>>,
    <<Text>>,
    <<Tool("web_search", "q")>>,
    <<Tool("read_webpage", "u")>>,
    <<Tool("execute_code", "A")>>,
    <<Tool("execute_code", "B")>>,
    <<Text, Tool("web_search", "q")>>,
    <<Tool("execute_code", "A"), Tool("execute_code", "A")>>,
    <<Tool("execute_code", "")>>,
    <<Tool("calculator", "")>> }

\* the answers of the later calls of a long conversation
PlainResponses == { <<Text>>, <<Tool("web_search", "q")>> }

Answers(calls_so_far) ==
  IF calls_so_far < MaxVaried THEN Responses ELSE PlainResponses

\* str(e) of the exceptions the model API and requests.get raise, as tokens
ApiErrors == { <<"invalid_api_key">>, <<"Invalid_API_Key">>,
               <<"rate_limit_error">> }
SearchErrors == { <<"ConnectionError">>,
                  <<"ConnectionError", "invalid_api_key">> }

\* str.lower() on the tokens of a message
Lower(msg) ==
  [i \in 1..Len(msg) |->
     IF msg[i] = "Invalid_API_Key" THEN "invalid_api_key" ELSE msg[i]]

\* result blocks of upstream responses
Links == { <<"//", "h">>,
           <<"//", "duckduckgo.com/l/?", "uddg=", "h", "&rut=", "x">>,
           <<"//", "duckduckgo.com/l/?", "uddg=", "h", "%26rut%3D", "p", "&rut=", "x">>,
           <<"//", "duckduckgo.com/l/?", "uddg=", "&rut=", "x">>,
           <<"//", "duckduckgo.com/l/?", "uddg=", "h", "%25", "p", "&rut=", "x">> }
\* destinations of result links: plain, with a query parameter named rut, with
\* a percent sign
Urls == { <<"h">>, <<"h", "&rut=", "p">>, <<"h", "%", "p">> }
Hrefs == {None, Some(<<>>)} \cup {Some(l) : l \in Links}
Titles == { <<>>, <<"T1">>, <<"T2">> }
Blocks ==
  { [title_elem |-> FALSE, href |-> None, text |-> <<>>, snippet |-> None],
    [title_elem |-> TRUE, href |-> Some(<<"//", "h">>), text |-> <<"T1">>,
     snippet |-> Some(<<"d">>)] }
  \cup [title_elem : {TRUE}, href : Hrefs, text : Titles, snippet : {None}]

UrlLens == {0, 20, TruncateLen \div 2, TruncateLen}
TextLens == {0, 1, PreviewLen, TruncateLen - 1, TruncateLen, TruncateLen + 1,
             2 * TruncateLen}
\* requests.exceptions.MissingSchema quotes the url twice
MsgLens(url_len) == {0, 40, 2 * url_len + 63}
FetchEnvs ==
  { [url_len |-> u, fail |-> "none", msg_len |-> 0, text_len |-> t] :
      u \in UrlLens, t \in TextLens }
  \cup
  UNION { { [url_len |-> u, fail |-> f, msg_len |-> m, text_len |-> 0] :
              f \in {"get", "parse", "extract"}, m \in MsgLens(u) } :
          u \in UrlLens }

----------------------------------------------------------------------------
(* Conversation Orchestrator: the script body, lines 29-38 and 259-413 *)

ObsIdle == [turns |-> 0, calls |-> 0, total_calls |-> 0, dispatches |-> 0,
            key_clears |-> 0, api_error |-> <<>>, outcome |-> "none",
            sent |-> 0]
HistInit == [temp_dirs |-> 0, runs |-> 0, last_run |-> "None", requests |-> <<>>]
FtIdle == [pc |-> "idle",
           env |-> [url_len |-> 0, fail |-> "none", msg_len |-> 0, text_len |-> 0],
           result |-> [raised |-> FALSE, kind |-> "none", len |-> 0]]
SrIdle == [pc |-> "idle", upstream |-> <<>>, num_results |-> 0, results |-> <<>>]

Init ==
  /\ api_key \in {"set", "None"}
  /\ messages = <<>>
  /\ display_messages = <<>>
  /\ last_executed_code = "None"
  /\ pc = "idle"
  /\ iteration_count = 0
  /\ local_messages = <<>>
  /\ response = <<>>
  /\ idx = 0
  /\ tools_sent = FALSE
  /\ obs = ObsIdle
  /\ sb = SbIdle
  /\ hist = HistInit
  /\ ft = FtIdle
  /\ sr = SrIdle

\* while iteration_count < max_iterations
Unbounded(n) == TRUE
LoopGuard(n) == n < max_iterations

\* tools=tools if iteration_count < (max_iterations - 1) else []
AlwaysTools(n) == TRUE
ToolsEnabled(n) == n < max_iterations - 1

\* "invalid_api_key" in str(e).lower()
NeverInvalidKey(msg) == FALSE
IndicatesInvalidKey(msg) == Contains(Lower(msg), "invalid_api_key")

\* last_executed_code == code
NeverSame(last, code) == FALSE
AlreadyExecuted(last, code) == last = code

\* any(item.type == "tool_use" for item in response.content)
NoBreak(r) == TRUE
HasToolUse(r) == \E i \in 1..Len(r) : r[i].type = "tool_use"

\* lines 32-35: the user enters a key
EnterKey ==
  /\ pc = "idle"
  /\ api_key = "None"
  /\ api_key' = "set"
  /\ UNCHANGED <<messages, display_messages, last_executed_code, turn, sb,
                 hist, ft, sr>>

\* lines 274-286: a prompt starts a turn
Prompt ==
  /\ pc = "idle"
  /\ api_key = "set"
  /\ obs.turns < MaxTurns
  /\ \E prompt \in Prompts(obs.turns + 1) :
       /\ messages' = Append(messages, Msg("user", "prompt", prompt))
       /\ display_messages' =
            Append(display_messages, Msg("user", "prompt", prompt))
       /\ local_messages' = messages'
  /\ iteration_count' = 0
  /\ pc' = "loop"
  /\ response' = <<>>
  /\ idx' = 0
  /\ tools_sent' = FALSE
  /\ obs' = [obs EXCEPT !.turns = @ + 1, !.calls = 0, !.dispatches = 0,
                        !.key_clears = 0, !.api_error = <<>>,
                        !.outcome = "running", !.sent = 0]
  /\ UNCHANGED <<api_key, last_executed_code, sb, hist, ft, sr>>

\* lines 409-413: the except handler of the turn; the locals of the turn die
AbortCommits(e, o) ==
  /\ api_key' = IF IndicatesInvalidKey(e) THEN "None" ELSE api_key
  /\ obs' = [o EXCEPT !.outcome = "aborted",
                      !.key_clears = IF IndicatesInvalidKey(e) THEN @ + 1 ELSE @]
  /\ pc' = "idle"
  /\ messages' = messages \o SubSeq(local_messages, Len(messages) + 1,
                                    Len(local_messages))
  /\ local_messages' = <<>>
  /\ idx' = 0
  /\ UNCHANGED last_executed_code
Abort(e, o) ==
  /\ api_key' = IF IndicatesInvalidKey(e) THEN "None" ELSE api_key
  /\ obs' = [o EXCEPT !.outcome = "aborted",
                      !.key_clears = IF IndicatesInvalidKey(e) THEN @ + 1 ELSE @]
  /\ pc' = "idle"
  /\ local_messages' = <<>>
  /\ idx' = 0
  /\ UNCHANGED <<messages, last_executed_code>>

\* st.session_state.messages.extend(messages[len(st.session_state.messages):])
Overwrite(log, local) == SubSeq(local, Len(log) + 1, Len(local))
Extend(log, local) == log \o SubSeq(local, Len(log) + 1, Len(local))

\* line 407: the turn's new messages are committed to the context log
Commit ==
  /\ messages' = Extend(messages, local_messages)
  /\ obs' = [obs EXCEPT !.outcome = "done"]
  /\ pc' = "idle"
  /\ local_messages' = <<>>
  /\ idx' = 0
  /\ UNCHANGED <<api_key, last_executed_code>>

\* lines 289-298: one more iteration; the model answers
AskModel ==
  /\ pc = "loop"
  /\ LoopGuard(iteration_count)
  /\ obs.total_calls < MaxCalls
  /\ iteration_count' = iteration_count + 1
  /\ tools_sent' = ToolsEnabled(iteration_count')
  /\ \E r \in Answers(obs.total_calls) :
       /\ response' = r
       /\ idx' = 1
       /\ pc' = "items"
  /\ obs' = [obs EXCEPT !.calls = @ + 1, !.total_calls = @ + 1,
                        !.sent = Len(local_messages)]
  /\ UNCHANGED <<session, local_messages, sb, hist, ft, sr>>

\* lines 289-298: one more iteration; the model call raises
AskModelRaises ==
  /\ pc = "loop"
  /\ LoopGuard(iteration_count)
  /\ obs.total_calls < MaxCalls
  /\ iteration_count' = iteration_count + 1
  /\ tools_sent' = ToolsEnabled(iteration_count')
  /\ \E e \in ApiErrors :
       Abort(e, [obs EXCEPT !.calls = @ + 1, !.total_calls = @ + 1,
                            !.api_error = e, !.sent = Len(local_messages)])
  /\ UNCHANGED <<display_messages, response, sb, hist, ft, sr>>

\* lines 302-306: a text item
HandleText ==
  /\ pc = "items"
  /\ idx <= Len(response)
  /\ response[idx].type = "text"
  /\ local_messages' =
       Append(local_messages, Msg("assistant", "text", response[idx].arg))
  /\ display_messages' =
       Append(display_messages, Msg("assistant", "text", response[idx].arg))
  /\ idx' = idx + 1
  /\ UNCHANGED <<api_key, messages, last_executed_code, pc, iteration_count,
                 response, tools_sent, obs, sb, hist, ft, sr>>

\* lines 309-335: web_search; the search returns. The rendering of the results
\* is one text, the same in both logs, identified here by the query.
HandleWebSearch ==
  /\ pc = "items"
  /\ idx <= Len(response)
  /\ response[idx].type = "tool_use"
  /\ response[idx].name = "web_search"
  /\ local_messages' =
       Append(local_messages, Msg("user", "search", response[idx].arg))
  /\ display_messages' =
       Append(display_messages, Msg("assistant", "search", response[idx].arg))
  /\ idx' = idx + 1
  /\ obs' = [obs EXCEPT !.dispatches = @ + 1]
  /\ UNCHANGED <<api_key, messages, last_executed_code, pc, iteration_count,
                 response, tools_sent, sb, hist, ft, sr>>

\* lines 309-314 and 125: web_search; requests.get raises
HandleWebSearchRaises ==
  /\ pc = "items"
  /\ idx <= Len(response)
  /\ response[idx].type = "tool_use"
  /\ response[idx].name = "web_search"
  /\ \E e \in SearchErrors :
       Abort(e, [obs EXCEPT !.dispatches = @ + 1])
  /\ UNCHANGED <<display_messages, iteration_count, response, tools_sent,
                 sb, hist, ft, sr>>

\* lines 337-358: read_webpage, when the environment of the fetch does env
ReadWebpageHidden(env) ==
  /\ pc = "items"
  /\ idx <= Len(response)
  /\ response[idx].type = "tool_use"
  /\ response[idx].name = "read_webpage"
  /\ LET content == read_webpage(env)
         o == [obs EXCEPT !.dispatches = @ + 1]
     IN  IF content.raised
         THEN /\ Abort(<<"Exception">>, o)
              /\ UNCHANGED display_messages
         ELSE /\ local_messages' =
                   Append(local_messages, Msg("user", "page", content.kind))
              /\ idx' = idx + 1
              /\ obs' = o
              /\ UNCHANGED <<api_key, messages, last_executed_code, pc,
                             display_messages>>
  /\ UNCHANGED <<iteration_count, response, tools_sent, sb, hist, sr>>
ReadWebpageDispatch(env) ==
  /\ pc = "items"
  /\ idx <= Len(response)
  /\ response[idx].type = "tool_use"
  /\ response[idx].name = "read_webpage"
  /\ LET content == read_webpage(env)
         o == [obs EXCEPT !.dispatches = @ + 1]
     IN  IF content.raised
         THEN /\ Abort(<<"Exception">>, o)
              /\ UNCHANGED display_messages
         ELSE /\ local_messages' =
                   Append(local_messages, Msg("user", "page", content.kind))
              /\ display_messages' =
                   Append(display_messages,
                          Msg("assistant", "page preview", content.kind))
              /\ idx' = idx + 1
              /\ obs' = o
              /\ UNCHANGED <<api_key, messages, last_executed_code, pc>>
  /\ UNCHANGED <<iteration_count, response, tools_sent, sb, hist, sr>>

HandleReadWebpage ==
  /\ \E env \in FetchEnvs : ReadWebpageDispatch(env)
  /\ UNCHANGED ft

\* lines 360-381: execute_code, up to the call of the sandbox
HandleExecuteCode ==
  /\ pc = "items"
  /\ idx <= Len(response)
  /\ response[idx].type = "tool_use"
  /\ response[idx].name = "execute_code"
  /\ LET code == response[idx].arg
     IN  IF code \in FalsyCodes
         THEN /\ idx' = idx + 1
              /\ UNCHANGED <<local_messages, display_messages, pc, sb, hist>>
         ELSE IF AlreadyExecuted(last_executed_code, code)
         THEN /\ local_messages' =
                   Append(local_messages, Msg("user", "already executed", ""))
              /\ idx' = idx + 1
              /\ hist' = [hist EXCEPT !.requests = Append(@, code)]
              /\ UNCHANGED <<display_messages, pc, sb>>
         ELSE /\ display_messages' =
                   Append(display_messages, Msg("assistant", "code", code))
              /\ sb' = [SbIdle EXCEPT !.pc = "mkdtemp", !.code = code]
              /\ hist' = [hist EXCEPT !.runs = @ + 1, !.last_run = code,
                                      !.requests = Append(@, code)]
              /\ pc' = "sandbox"
              /\ UNCHANGED <<local_messages, idx>>
  /\ obs' = [obs EXCEPT !.dispatches = @ + 1]
  /\ UNCHANGED <<api_key, messages, last_executed_code, iteration_count,
                 response, tools_sent, ft, sr>>

\* line 400: st.session_state.last_executed_code = code
FirstCodeOnly(last, code) == IF last = "None" THEN code ELSE last
MarkerAfterRun(last, code) == code

\* lines 381-400: execute_code has returned
ExecuteCodeReturns ==
  /\ pc = "sandbox"
  /\ sb.pc = "returned"
  /\ IF sb.raised
     THEN /\ Abort(<<"Exception">>, obs)
          /\ UNCHANGED display_messages
     ELSE /\ local_messages' =
               Append(local_messages, Msg("user", "execution result", sb.code))
          /\ display_messages' =
               Append(display_messages,
                      Msg("assistant", "execution result", sb.code))
          /\ last_executed_code' = MarkerAfterRun(last_executed_code, sb.code)
          /\ idx' = idx + 1
          /\ pc' = "items"
          /\ UNCHANGED <<api_key, messages, obs>>
  /\ sb' = SbIdle
  /\ UNCHANGED <<iteration_count, response, tools_sent, hist, ft, sr>>

\* lines 301-360: an item that no branch handles
HandleOther ==
  /\ pc = "items"
  /\ idx <= Len(response)
  /\ response[idx].type = "tool_use"
  /\ response[idx].name \notin {"web_search", "read_webpage", "execute_code"}
  /\ idx' = idx + 1
  /\ UNCHANGED <<session, pc, iteration_count, local_messages, response,
                 tools_sent, obs, sb, hist, ft, sr>>

\* lines 402-407 and 289: the items are done; break, leave the loop at the cap,
\* or go round again
EndOfResponse ==
  /\ pc = "items"
  /\ idx > Len(response)
  /\ IF ~HasToolUse(response) \/ ~LoopGuard(iteration_count)
     THEN /\ Commit
          /\ UNCHANGED display_messages
     ELSE /\ pc' = "loop"
          /\ UNCHANGED <<session, local_messages, idx, obs>>
  /\ UNCHANGED <<iteration_count, response, tools_sent, sb, hist, ft, sr>>

Next ==
  \/ EnterKey
  \/ Prompt
  \/ AskModel
  \/ AskModelRaises
  \/ HandleText
  \/ HandleWebSearch
  \/ HandleWebSearchRaises
  \/ HandleReadWebpage
  \/ HandleExecuteCode
  \/ ExecuteCodeReturns
  \/ HandleOther
  \/ EndOfResponse
  \/ Sandbox

Spec == Init /\ [][Next]_vars

----------------------------------------------------------------------------
(* read_webpage on its own: a turn that has reached a read_webpage request, *)
(* for every behaviour of the environment of the fetch                      *)

InitFetch ==
  /\ api_key = "set"
  /\ messages = <<Msg("user", "prompt", "p1")>>
  /\ display_messages = messages
  /\ last_executed_code = "None"
  /\ pc = "items"
  /\ iteration_count = 1
  /\ local_messages = messages
  /\ response = <<Tool("read_webpage", "u")>>
  /\ idx = 1
  /\ tools_sent = TRUE
  /\ obs = [ObsIdle EXCEPT !.turns = 1, !.calls = 1, !.total_calls = 1,
                           !.outcome = "running", !.sent = 1]
  /\ sb = SbIdle
  /\ hist = HistInit
  /\ \E env \in FetchEnvs : ft = [FtIdle EXCEPT !.pc = "call", !.env = env]
  /\ sr = SrIdle

FetchCall ==
  /\ ft.pc = "call"
  /\ ReadWebpageDispatch(ft.env)
  /\ ft' = [ft EXCEPT !.pc = "returned", !.result = read_webpage(ft.env)]

SpecFetch == InitFetch /\ [][FetchCall]_vars

----------------------------------------------------------------------------
(* search_duckduckgo on its own, for every upstream response and num_results *)

\* result blocks in one upstream response
MaxBlocks == 2
\* num_results ranges over -MaxNum .. MaxNum
MaxNum == 3

Upstreams == UNION { [1..n -> Blocks] : n \in 0..MaxBlocks }

InitSearch ==
  /\ api_key = "set"
  /\ messages = <<>>
  /\ display_messages = <<>>
  /\ last_executed_code = "None"
  /\ pc = "idle"
  /\ iteration_count = 0
  /\ local_messages = <<>>
  /\ response = <<>>
  /\ idx = 0
  /\ tools_sent = FALSE
  /\ obs = ObsIdle
  /\ sb = SbIdle
  /\ hist = HistInit
  /\ ft = FtIdle
  /\ \E u \in Upstreams, n \in (0 - MaxNum)..MaxNum :
       sr = [SrIdle EXCEPT !.pc = "call", !.upstream = u, !.num_results = n]

SearchCall ==
  /\ sr.pc = "call"
  /\ sr' = [sr EXCEPT !.pc = "returned",
                      !.results = search_duckduckgo(sr.upstream, sr.num_results)]
  /\ UNCHANGED <<session, turn, sb, hist, ft>>

SpecSearch == InitSearch /\ [][SearchCall]_vars

----------------------------------------------------------------------------
(* The claims *)

\* C1: in a single user turn the Orchestrator makes at most max_iterations
\* model API calls, whatever the model answers.
C1_AtMostMaxIterationsCalls == obs.calls <= max_iterations

\* a turn that ran to the cap: five calls, the last answer asking for a tool too
C1_Witness ==
  /\ obs.calls = max_iterations
  /\ obs.outcome = "done"
  /\ HasToolUse(response)

\* C2: the request of iteration max_iterations - 1 and of every later
\* iteration carries no tool schema, the request of every earlier iteration
\* carries it, and a turn that runs to its end does not end on an answer that
\* used an offered tool schema to ask for a tool (the last answer holds a tool
\* invocation only if it was given no schema to invoke).
C2_ToolSchemaOmittedFromSecondToLast ==
  /\ obs.calls >= max_iterations - 1 => ~tools_sent
  /\ obs.calls \in 1..(max_iterations - 2) => tools_sent
  /\ (obs.outcome = "done" /\ HasToolUse(response)) => ~tools_sent

\* a turn whose fourth request carried no schema and was answered without a
\* tool invocation
C2_Witness ==
  /\ obs.calls = max_iterations - 1
  /\ ~tools_sent
  /\ obs.outcome = "done"
  /\ ~HasToolUse(response)

\* the model asks to execute this code now
ExecRequested(code) ==
  /\ pc = "items"
  /\ idx <= Len(response)
  /\ response[idx] = Tool("execute_code", code)

\* C3: a request to execute the code of the immediately preceding execution
\* of the conversation does not invoke the sandbox and is answered "already
\* executed".
C3_IdenticalCodeIsNotRerun ==
  [][\A code \in Codes :
       (ExecRequested(code) /\ hist.last_run = code) =>
         /\ hist'.runs = hist.runs
         /\ sb' = sb
         /\ pc' = "items"
         /\ idx' = idx + 1
         /\ local_messages' =
              Append(local_messages, Msg("user", "already executed", ""))]_vars

\* a repeated request was answered with the notice, in a later turn than the
\* execution
C3_Witness ==
  /\ hist.runs = 1
  /\ obs.turns = 2
  /\ \E i \in 1..Len(messages) :
        messages[i] = Msg("user", "execution result", "A")
  /\ last_executed_code = "A"
  /\ local_messages # <<>>
  /\ local_messages[Len(local_messages)] = Msg("user", "already executed", "")

\* the model API raised a credential error in this turn
CredentialError(msg) == msg \in { <<"invalid_api_key">>, <<"Invalid_API_Key">> }

\* C4: when a model API call raises a credential error, the stored credential
\* is cleared exactly once and the turn makes no further model call or tool
\* dispatch.
C4_CredentialErrorClearsOnceAndStops ==
  /\ [](CredentialError(obs.api_error) =>
          obs.key_clears = 1 /\ obs.outcome = "aborted" /\ pc = "idle")
  /\ [][(~CredentialError(obs.api_error) /\ CredentialError(obs'.api_error))
          => api_key = "set" /\ api_key' = "None"]_vars
  /\ [][(CredentialError(obs.api_error) /\ obs'.turns = obs.turns) =>
          /\ obs'.calls = obs.calls
          /\ obs'.dispatches = obs.dispatches
          /\ obs'.key_clears = obs.key_clears]_vars

\* the third call of a turn raised the credential error, after two dispatches
C4_Witness ==
  /\ CredentialError(obs.api_error)
  /\ api_key = "None"
  /\ obs.calls = 3
  /\ obs.dispatches = 2

\* the subordinate operations of the running call, by position in sb.events
Installs == {i \in 1..Len(sb.events) : sb.events[i][1] = "install"}
Execs == {i \in 1..Len(sb.events) : sb.events[i][1] = "exec"}
LastEvent == sb.events[Len(sb.events)]
HasLine(text, l, a) == \E i \in 1..Len(text) : text[i] = Line(l, a)

\* C5: one run attempts at most one install and executes the code at most
\* twice, the second time only right after a successful install; a failed
\* install or a failed retry is the last operation of the run; and when the
\* first execution fails for a missing module M and the retry succeeds, the
\* returned log holds an "installing" line and an "executed successfully" line.
C5_OneInstallOneRetry ==
  /\ Cardinality(Installs) <= 1
  /\ Cardinality(Execs) <= 2
  /\ \A i \in Execs :
       (\E j \in Execs : j < i) =>
          /\ sb.events[i - 1] = <<"install", "ok">>
          /\ sb.events[i][2] # "ok" => i = Len(sb.events)
  /\ \A i \in Installs : sb.events[i][2] # "ok" => i = Len(sb.events)
  /\ (sb.pc = "returned" /\ Cardinality(Execs) = 2 /\ LastEvent = <<"exec", "ok">>)
       => /\ HasLine(sb.result, "Installing missing module: ", sb.missing_module)
          /\ HasLine(sb.result, "Python code executed successfully.", <<>>)
          /\ Contains(sb.error_message, "MNF")
          /\ sb.missing_module # <<>>

\* a run whose first execution failed, whose install worked and whose retry
\* succeeded
C5_Witness ==
  /\ sb.pc = "returned"
  /\ sb.events = << <<"mkdtemp", "ok">>, <<"venv", "ok">>, <<"write", "ok">>,
                    <<"exec", "CalledProcessError">>, <<"install", "ok">>,
                    <<"exec", "ok">> >>

\* an operation that raised something other than a non-zero exit of the script
\* or of the install
UnexpectedEvent(ev) ==
  /\ ev[2] # "ok"
  /\ ~(ev[1] \in {"exec", "install"} /\ ev[2] = "CalledProcessError")

\* C6: execute_code never raises to its caller; it returns the log, or
\* "Unexpected error: <message>" when an operation raised anything other than
\* a non-zero exit of the script or of the install.
C6_RunNeverRaises ==
  /\ ~sb.raised
  /\ sb.pc = "returned" =>
       IF UnexpectedEvent(LastEvent)
       THEN sb.result = <<Line("Unexpected error: ", <<LastEvent[2]>>)>>
       ELSE /\ sb.result = sb.logs
            /\ sb.result # <<>>
            /\ \A i \in 1..Len(sb.result) :
                 sb.result[i].line # "Unexpected error: "

\* the install could not be started, after a first execution that failed
C6_Witness ==
  /\ sb.pc = "returned"
  /\ LastEvent = <<"install", "OSError">>
  /\ sb.result = <<Line("Unexpected error: ", <<"OSError">>)>>

\* C7: a run makes its own temporary directory, none exists when the run
\* starts, and none exists (nor the environment or the script in it) once the
\* run has returned, on every exit path.
C7_TempDirGoneAfterRun ==
  /\ sb.pc \in {"idle", "mkdtemp", "returned"} =>
       hist.temp_dirs = 0 /\ ~sb.venv /\ sb.script = "None"
  /\ sb.pc \in {"venv", "write", "exec", "install", "retry", "return"} =>
       hist.temp_dirs = 1

\* the second run of a conversation has returned after a failed retry
C7_Witness ==
  /\ sb.pc = "returned"
  /\ hist.runs = 2
  /\ Cardinality(Execs) = 2
  /\ LastEvent = <<"exec", "CalledProcessError">>
  /\ hist.temp_dirs = 0

\* C8: read_webpage never raises to its caller: an exception of the request,
\* of the parsing or of the extraction comes back as "Error reading webpage:
\* <message>", and the turn goes on with the next item.
C8_FetchNeverRaises ==
  ft.pc = "returned" =>
    /\ ~ft.result.raised
    /\ ft.env.fail # "none" =>
         /\ ft.result.kind = "error"
         /\ ft.result.len = ErrPrefixLen + ft.env.msg_len
    /\ obs.outcome = "running"
    /\ pc = "items"
    /\ idx = 2
    /\ local_messages[Len(local_messages)] = Msg("user", "page", ft.result.kind)

\* the parsing raised and the turn goes on
C8_Witness ==
  /\ ft.pc = "returned"
  /\ ft.env.fail = "parse"
  /\ ft.result.kind = "error"
  /\ obs.outcome = "running"

\* C9: the text read_webpage returns is at most 300,000 characters long, for
\* every input and outcome.
C9_FetchOutputBounded ==
  ft.pc = "returned" => ft.result.len <= TruncateLen

\* the order of the upstream blocks is kept: the records come from blocks at
\* increasing positions, each from a block that matches it
Embeds(results, upstream, Match(_, _)) ==
  \E f \in [1..Len(results) -> 1..Len(upstream)] :
     /\ \A i, j \in 1..Len(results) : i < j => f[i] < f[j]
     /\ \A i \in 1..Len(results) : Match(results[i], upstream[f[i]])

HasTitleAndLink(r, b) ==
  /\ b.title_elem
  /\ b.text # <<>>
  /\ b.text = r.title
  /\ b.href.some
  /\ b.href.v # <<>>

\* a redirect link whose target parameter is empty or begins with the
\* tracking parameter
EmptyTarget(link) ==
  /\ Contains(link, "duckduckgo.com/l/?")
  /\ \E i \in 1..Len(link) :
       /\ link[i] = "uddg="
       /\ \A j \in 1..(i - 1) : link[j] # "uddg="
       /\ i = Len(link) \/ link[i + 1] \in {"&rut=", "%26rut%3D", "uddg="}

FromBlock(r, b) ==
  /\ HasTitleAndLink(r, b)
  /\ r.url = <<>> => EmptyTarget(b.href.v)

\* C10 as stated: for every upstream response and every integer num_results
\* the search returns at most num_results records, each with a non-empty
\* title and url, in the upstream order, none from a block without title and
\* link.
C10_AsStated ==
  sr.pc = "returned" =>
    /\ Len(sr.results) <= sr.num_results
    /\ \A i \in 1..Len(sr.results) :
         sr.results[i].title # <<>> /\ sr.results[i].url # <<>>
    /\ Embeds(sr.results, sr.upstream, HasTitleAndLink)

\* C10 amended: for num_results >= 0 the search returns at most num_results
\* records (a negative num_results instead leaves out that many blocks from
\* the end); every record has a non-empty title, and a non-empty url unless
\* its link is a redirect link with an empty target; the records keep the
\* upstream order and each comes from a block that has a title and a link.
C10_AtMostNumResultsInOrder ==
  sr.pc = "returned" =>
    /\ sr.num_results >= 0 => Len(sr.results) <= sr.num_results
    /\ sr.num_results < 0 =>
         Len(sr.results) <= Max(Len(sr.upstream) + sr.num_results, 0)
    /\ \A i \in 1..Len(sr.results) : sr.results[i].title # <<>>
    /\ Embeds(sr.results, sr.upstream, FromBlock)

\* two blocks with title and link, one record asked for and returned
C10_Witness ==
  /\ sr.pc = "returned"
  /\ sr.num_results = 1
  /\ Len(sr.upstream) = 2
  /\ \A i \in 1..2 : KeepsBlock(sr.upstream[i])
  /\ Len(sr.results) = 1

\* C11 as stated: for every destination U, a result whose link wraps U in the
\* redirect form (percent-encoded U as the target, then the tracking
\* parameter) yields a record whose url is exactly U, the url a result that
\* links U directly yields.
C11_WrapThenUnwrapIsOriginal ==
  (sr.pc = "returned" /\ sr.num_results >= 1 /\ Len(sr.upstream) >= 1) =>
    \A U \in Urls :
       LET b == sr.upstream[1]
           direct == search_duckduckgo(<<[b EXCEPT !.href = Some(U)]>>, 1)
       IN  (KeepsBlock(b) /\ b.href.v = Wrap(U, <<"x">>)) =>
              /\ sr.results[1].url = U
              /\ sr.results[1].url = direct[1].url

IsPrefix(a, b) == Len(a) <= Len(b) /\ SubSeq(b, 1, Len(a)) = a

\* the user inputs recorded in a log, in order
IsPrompt(m) == m.kind = "prompt"
UserInputs(log) == SelectSeq(log, IsPrompt)

\* C12: over any sequence of completed and aborted turns the context log and
\* the transcript only grow (each step leaves the old log as a prefix of the
\* new one, and so does each step of a turn for the context the turn works
\* on), and both record the same sequence of user inputs.
C12_LogsOnlyGrowAndAgreeOnUserInputs ==
  /\ [](/\ UserInputs(messages) = UserInputs(display_messages)
        /\ pc # "idle" => UserInputs(local_messages) = UserInputs(messages))
  /\ [][/\ IsPrefix(messages, messages')
        /\ IsPrefix(display_messages, display_messages')]_vars
  /\ [][(pc # "idle" /\ pc' # "idle") =>
          IsPrefix(local_messages, local_messages')]_vars

\* a completed second turn after a first turn that showed an entry and was
\* then aborted
C12_Witness ==
  /\ obs.turns = 2
  /\ obs.outcome = "done"
  /\ Len(messages) >= 3
  /\ messages[2] = Msg("user", "prompt", "p2")
  /\ ~IsPrompt(display_messages[2])
  /\ Len(UserInputs(display_messages)) = 2

\* the entries a log got in the running turn: those after its last prompt
LastPrompt(log) ==
  CHOOSE i \in 1..Len(log) :
     IsPrompt(log[i]) /\ \A j \in (i + 1)..Len(log) : ~IsPrompt(log[j])
TurnEntries(log) == SubSeq(log, LastPrompt(log) + 1, Len(log))

\* the transcript entry that goes with a context entry: assistant role, the
\* display rendering of the same result
DisplayRendering(m) ==
  Msg("assistant", IF m.kind = "page" THEN "page preview" ELSE m.kind, m.arg)
ContextRole(m) == IF m.kind = "text" THEN "assistant" ELSE "user"

\* between two content items
BetweenItems == pc \in {"items", "loop"}

\* C13 as stated: every tool invocation processed appends one user-role
\* rendering to the context and one assistant-role rendering to the
\* transcript, every text unit the same assistant-role text to both, so the
\* turn's entries of the two logs correspond one to one, in order.
C13_AsStated ==
  BetweenItems =>
    LET c == TurnEntries(local_messages)
        d == TurnEntries(display_messages)
    IN  /\ Len(c) = Len(d)
        /\ \A i \in 1..Len(c) :
             d[i] = DisplayRendering(c[i]) /\ c[i].role = ContextRole(c[i])

IsNotice(m) == m.kind = "already executed"
NotNotice(m) == ~IsNotice(m)
NotCode(m) == m.kind # "code"

\* one whole content item is handled in this step, without a sandbox run
ItemStep == pc = "items" /\ idx <= Len(response) /\ pc' = "items" /\ idx' = idx + 1

\* C13 amended: a web_search or read_webpage invocation appends one user-role
\* rendering to the context and one assistant-role rendering to the
\* transcript, a text unit the same assistant-role text to both; an
\* execute_code invocation that runs the sandbox appends the user-role result
\* to the context and two assistant-role entries to the transcript (the code,
\* then the result); one answered "already executed" appends the notice to
\* the context and nothing to the transcript; one with empty code, or a tool
\* of another name, appends nothing. So the turn's context entries other than
\* the notices and its transcript entries other than the code listings
\* correspond one to one, in order, differing only in role and rendering.
C13_LogsCorrespondButForCodeAndNotices ==
  /\ [](BetweenItems =>
          LET c == SelectSeq(TurnEntries(local_messages), NotNotice)
              d == SelectSeq(TurnEntries(display_messages), NotCode)
              t == TurnEntries(display_messages)
          IN  /\ Len(c) = Len(d)
              /\ \A i \in 1..Len(c) :
                   d[i] = DisplayRendering(c[i]) /\ c[i].role = ContextRole(c[i])
              /\ \A i \in 1..Len(TurnEntries(local_messages)) :
                   TurnEntries(local_messages)[i].role
                     = ContextRole(TurnEntries(local_messages)[i])
              /\ \A i \in 1..Len(t) :
                   /\ t[i].kind = "execution result" =>
                        i > 1 /\ t[i - 1] = Msg("assistant", "code", t[i].arg)
                   /\ t[i].kind = "code" =>
                        i < Len(t) /\ t[i + 1].kind = "execution result")
  /\ [][ItemStep =>
          LET item == response[idx]
              grown(log, log2, m) == log2 = Append(log, m)
          IN  CASE item.type = "text" ->
                     /\ grown(local_messages, local_messages',
                              Msg("assistant", "text", item.arg))
                     /\ grown(display_messages, display_messages',
                              Msg("assistant", "text", item.arg))
                [] item.type = "tool_use"
                     /\ item.name \in {"web_search", "read_webpage"} ->
                     /\ Len(local_messages') = Len(local_messages) + 1
                     /\ IsPrefix(local_messages, local_messages')
                     /\ local_messages'[Len(local_messages')].role = "user"
                     /\ grown(display_messages, display_messages',
                              DisplayRendering(
                                local_messages'[Len(local_messages')]))
                [] item.type = "tool_use" /\ item.name = "execute_code" ->
                     /\ display_messages' = display_messages
                     /\ IF item.arg \in FalsyCodes
                        THEN local_messages' = local_messages
                        ELSE grown(local_messages, local_messages',
                                   Msg("user", "already executed", ""))
                [] OTHER ->
                     /\ display_messages' = display_messages
                     /\ local_messages' = local_messages]_vars
  /\ [][(pc = "sandbox" /\ pc' = "items") =>
          /\ local_messages' =
               Append(local_messages, Msg("user", "execution result", sb.code))
          /\ display_messages' =
               Append(display_messages,
                      Msg("assistant", "execution result", sb.code))
          /\ display_messages[Len(display_messages)]
               = Msg("assistant", "code", sb.code)]_vars

\* a turn that searched, ran code A and then answered a second request for A
\* with the notice
C13_Witness ==
  /\ BetweenItems
  /\ \E i \in 1..Len(local_messages) : local_messages[i].kind = "search"
  /\ LET c == TurnEntries(local_messages)
         d == TurnEntries(display_messages)
     IN  /\ Len(c) >= 2 /\ Len(d) >= 2
         /\ SubSeq(c, Len(c) - 1, Len(c))
              = << Msg("user", "execution result", "A"),
                   Msg("user", "already executed", "") >>
         /\ SubSeq(d, Len(d) - 1, Len(d))
              = << Msg("assistant", "code", "A"),
                   Msg("assistant", "execution result", "A") >>

\* the response holds a tool invocation
InvokesTool(r) == \E i \in 1..Len(r) : r[i].type = "tool_use"

\* every item of the response has been handled, none raised
ResponseProcessed == pc = "items" /\ idx > Len(response)

\* C14: once a response has been processed without error the loop goes to
\* another model call if and only if the response held a tool invocation and
\* fewer than max_iterations calls were made; otherwise the turn ends (done)
\* at once, with no further call; and nothing but a model call follows the
\* decision to go on.
C14_AsksAgainIffToolUseAndBelowCap ==
  /\ [][ResponseProcessed =>
          IF InvokesTool(response) /\ obs.calls < max_iterations
          THEN pc' = "loop" /\ obs'.outcome = "running" /\ obs'.calls = obs.calls
          ELSE pc' = "idle" /\ obs'.outcome = "done" /\ obs'.calls = obs.calls]_vars
  /\ [][(pc = "loop" /\ obs.calls < max_iterations) =>
          obs'.calls = obs.calls + 1]_vars
  /\ [](pc = "loop" => obs.calls < max_iterations)
  /\ [][(obs.outcome = "done" /\ obs'.turns = obs.turns) =>
          obs'.calls = obs.calls]_vars

\* a turn whose first answer asked for a tool and whose second answer was
\* plain text: two calls, then done
C14_Witness ==
  /\ obs.outcome = "done"
  /\ obs.calls = 2
  /\ ~InvokesTool(response)
  /\ \E i \in 1..Len(messages) : messages[i].kind = "search"

\* the name the claim describes: the text between the first two single quotes
\* that follow the "No module named" marker, if there are two
NameAfterMarker(e) ==
  LET marker == PyFind(e, "NMN", 0)
      q1 == IF marker < 0 THEN -1 ELSE PyFind(e, "q", marker + 1)
      q2 == IF q1 < 0 THEN -1 ELSE PyFind(e, "q", q1 + 1)
  IN  IF q1 < 0 \/ q2 < 0 THEN None ELSE Some(PySlice(e, q1 + 1, q2))

\* the first execution of the running call failed with a missing-module error
MissingModuleFailure ==
  /\ sb.pc \in {"install", "retry", "return", "returned"}
  /\ Cardinality(Execs) >= 1
  /\ sb.events[4] = <<"exec", "CalledProcessError">>
  /\ Contains(sb.error_message, "MNF")

\* C15 as stated: after a first execution that failed with a missing-module
\* error the sandbox installs the name found between the first two single
\* quotes after the "No module named" marker; when there is no such name it
\* attempts no install and no retry and logs the extraction failure.
C15_InstallsTheNameAfterTheMarker ==
  MissingModuleFailure =>
    LET name == NameAfterMarker(sb.error_message)
    IN  IF Truthy(name)
        THEN /\ sb.pc = "install" \/ Installs # {}
             /\ sb.missing_module = name.v
        ELSE /\ sb.pc \in {"return", "returned"}
             /\ Installs = {}
             /\ Cardinality(Execs) = 1
             /\ HasLine(sb.logs,
                        "Error: Unable to extract module name from error: ",
                        sb.error_message)

\* the requests of a sequence that differ from the request before them
Changes(reqs) == {i \in 1..Len(reqs) : i = 1 \/ reqs[i] # reqs[i - 1]}

\* C16: the guard remembers only the code of the most recent sandbox
\* invocation. The marker changes only when an invocation returns and then
\* becomes that invocation's code, a skipped request leaves it alone, and a
\* request runs the sandbox exactly when its code differs from the marker; so
\* the sandbox has been invoked once for every request that differs from the
\* request before it: three times for A, B, A and twice for A, A, B, B.
C16_GuardRemembersOnlyTheLastRun ==
  /\ [](hist.runs = Cardinality(Changes(hist.requests)))
  /\ [](hist.requests = <<"A", "B", "A">> => hist.runs = 3)
  /\ [](hist.requests = <<"A", "A", "B", "B">> => hist.runs = 2)
  /\ [](sb.pc = "idle" => last_executed_code = hist.last_run)
  /\ [][last_executed_code' # last_executed_code =>
          pc = "sandbox" /\ sb.pc = "returned" /\ last_executed_code' = sb.code]_vars
  /\ [][(pc = "sandbox" /\ pc' # "sandbox") =>
          pc' = "items" /\ last_executed_code' = sb.code]_vars
  /\ [][\A code \in Codes :
          ExecRequested(code) =>
            /\ hist'.runs = hist.runs + 1 <=> last_executed_code # code
            /\ last_executed_code' = last_executed_code]_vars

\* the requests A, A, B, B were made and the sandbox ran twice
C16_WitnessAABB ==
  /\ hist.requests = <<"A", "A", "B", "B">>
  /\ hist.runs = 2
  /\ last_executed_code = "B"

\* the requests A, B, A were made and the third run has returned
C16_Witness ==
  /\ hist.requests = <<"A", "B", "A">>
  /\ hist.runs = 3
  /\ sb.pc = "idle"
  /\ last_executed_code = "A"

\* the last thing the turn did was to answer a request with the notice
JustAnsweredAlreadyExecuted ==
  /\ BetweenItems
  /\ local_messages # <<>>
  /\ IsNotice(local_messages[Len(local_messages)])

\* C17: whenever a request to execute code C is answered with the "already
\* executed" notice, the context the next model call is sent holds the
\* execution result of C from the earlier run.
C17_NoticeComesWithTheEarlierResult ==
  JustAnsweredAlreadyExecuted =>
    \E j \in 1..Len(local_messages) :
       local_messages[j] = Msg("user", "execution result", last_executed_code)

\* the step that ends the turn, by the except handler or by the commit
TurnAborts == pc # "idle" /\ pc' = "idle" /\ obs'.outcome = "aborted"
TurnCompletes == pc # "idle" /\ pc' = "idle" /\ obs'.outcome = "done"

\* C18: during a turn the persisted context is the pre-turn context plus the
\* turn's prompt; an exception leaves it so (nothing the aborted turn
\* produced is committed) and leaves the transcript and the marker with every
\* entry and update made before it; a turn that completes commits exactly the
\* messages the turn appended, in order.
C18_AbortKeepsOnlyThePrompt ==
  /\ [][(pc = "idle" /\ pc' # "idle") =>
          /\ messages' = Append(messages, Msg("user", "prompt", PromptTexts[obs'.turns]))
          /\ local_messages' = messages']_vars
  /\ [][(pc # "idle" /\ pc' # "idle") => messages' = messages]_vars
  /\ [](pc # "idle" =>
          /\ IsPrefix(messages, local_messages)
          /\ messages[Len(messages)] = Msg("user", "prompt", PromptTexts[obs.turns]))
  /\ [][TurnAborts =>
          /\ messages' = messages
          /\ display_messages' = display_messages
          /\ last_executed_code' = last_executed_code]_vars
  /\ [][TurnCompletes =>
          /\ messages' = local_messages
          /\ display_messages' = display_messages
          /\ last_executed_code' = last_executed_code]_vars

\* a first turn ran code A (listing and result shown), then a model call
\* raised: the context holds the prompt alone, the transcript and the marker
\* keep the rest
C18_Witness ==
  /\ obs.turns = 1
  /\ obs.outcome = "aborted"
  /\ obs.api_error # <<>>
  /\ messages = <<Msg("user", "prompt", "p1")>>
  /\ Len(display_messages) >= 3
  /\ last_executed_code = "A"

\* C19: within a turn every model call after the first is sent a context
\* strictly longer than the context of the call before it: a round that leads
\* to another call has appended at least one message.
C19_NextCallSeesALongerContext ==
  (pc = "loop" /\ obs.calls >= 1) => Len(local_messages) > obs.sent

\* C20: the stored credential is cleared only in a turn in which a model API
\* call failed with an invalid-credential error; an exception of a tool
\* dispatch never clears it, whatever its message.
C20_OnlyACredentialErrorClearsTheKey ==
  obs.key_clears >= 1 => CredentialError(obs.api_error)

====
